---- MODULE Spec2Model ----
(***************************************************************************)
(* Model of the header-only Result<T, ErrorEnum> container (result.hpp):   *)
(* the Error value type, the Result class built on                         *)
(* std::variant<T, Error<ErrorEnum>>, its accessors and its combinators.   *)
(*                                                                         *)
(* T and U are modelled as a scalar type (int, as in the usage examples):  *)
(* T() is 0, and a variable declared as `T val;` is uninitialised.         *)
(* ErrorEnum is an enumeration whose zero value is 0.                      *)
(* A payload slot is a sequence: <<x>> when the alternative is live,       *)
(* <<>> when it is not.                                                    *)
(***************************************************************************)
EXTENDS Integers, Sequences, FiniteSets, TLC

\* ---- bounds of the model ----
ValueMax == 1
CodeMax == 1
MaxChain == 3

\* ---- value domains ----
T == 0..ValueMax
ErrorEnum == 0..CodeMax
Messages == {"", "bad input"}

\* T(): value-initialisation of the scalar success type
TDefault == 0
\* ErrorEnum(): value-initialisation of the enumeration
ErrorEnumDefault == 0
\* std::variant_npos, the index of a valueless variant
variant_npos == -1

Content == {"Empty", "Value", "Error"}

\* ---- Error<ErrorEnum> ----
\* Error(const std::string message, const ErrorEnum code)
Error_message_code(message, code) == [message |-> message, code |-> code]

\* Error(const ErrorEnum code) : Error("", code)
Error_code(code) == Error_message_code("", code)

\* Error(const std::string message) : Error(message, ErrorEnum())
Error_message(message) == Error_message_code(message, ErrorEnumDefault)

\* Error() = default: m_message is default-constructed (empty); m_code has
\* no initialiser, so it is zero only when the object is value-initialised
\* (Error<E>()) and indeterminate when it is default-initialised
\* (Error<E> error;).  `indeterminate` is the value the read then yields.
Error_default(valueInit, indeterminate) ==
    [message |-> "", code |-> IF valueInit THEN ErrorEnumDefault ELSE indeterminate]

\* std::string message() const
message(self) == self.message

\* ErrorEnum code() const
code(self) == self.code

Errors == {Error_message_code(m, c) : m \in Messages, c \in ErrorEnum}

\* ---- Result<T, ErrorEnum> : std::variant<T, Error<ErrorEnum>> ----
\* Result() = default: std::variant's default constructor holds a
\* value-initialised first alternative, index() == 0
Result_default == [index |-> 0, value |-> <<TDefault>>, error |-> <<>>]

\* Result(const T value) that leaves the variant default-constructed
Result_T_dropped(value) == [index |-> 0, value |-> <<TDefault>>, error |-> <<>>]

\* Result(const T value)
Result_T(value) == [index |-> 0, value |-> <<value>>, error |-> <<>>]

\* Result(const Error<ErrorEnum> error) that keeps only the message
Result_Error_recoded(err) ==
    [index |-> 1, value |-> <<>>, error |-> << Error_message(err.message) >>]

\* Result(const Error<ErrorEnum> error)
Result_Error(err) == [index |-> 1, value |-> <<>>, error |-> <<err>>]

\* the variant after an assignment whose construction of the new
\* alternative threw: valueless_by_exception(), index() == variant_npos
valueless == [index |-> variant_npos, value |-> <<>>, error |-> <<>>]

Results == {Result_T(t) : t \in T} \cup {Result_Error(x) : x \in Errors} \cup {valueless}

\* get() that answers a wrong alternative with T() instead of throwing
get_unchecked(self) ==
    IF self.index = 0
    THEN [thrown |-> FALSE, value |-> self.value]
    ELSE [thrown |-> FALSE, value |-> <<TDefault>>]

\* T get() const { return std::get<T>(*this); }
get(self) ==
    IF self.index = 0
    THEN [thrown |-> FALSE, value |-> self.value]
    ELSE [thrown |-> TRUE, value |-> <<>>]

\* Error<ErrorEnum> error() const { return std::get<Error<ErrorEnum>>(*this); }
error(self) ==
    IF self.index = 1
    THEN [thrown |-> FALSE, error |-> self.error]
    ELSE [thrown |-> TRUE, error |-> <<>>]

\* Content type() const
type(self) ==
    CASE self.index = 0 -> "Value"
      [] self.index = 1 -> "Error"
      [] OTHER -> "Empty"

\* one invocation of a callback
Call(fn, value, err) == [fn |-> fn, value |-> value, error |-> err]

\* match whose switch has no Content::Error case
match_value_only(self) ==
    CASE type(self) = "Value" -> << Call("apply_value", get(self).value, <<>>) >>
      [] OTHER -> << >>

\* void match(apply_value, apply_error) const: the callback invocations
\* the switch performs, in order
match(self) ==
    CASE type(self) = "Value" -> << Call("apply_value", get(self).value, <<>>) >>
      [] type(self) = "Error" -> << Call("apply_error", <<>>, error(self).error) >>
      [] OTHER -> << >>

\* free function match(result, apply_value, apply_error)
Result_match(result) == match(result)

\* assignment that only replaces the payload of the alternative already held
assign_same_alternative(self, rhs) ==
    IF self.index = rhs.index THEN rhs ELSE self

\* Result's implicit assignment operator (inherited variant storage):
\* *this takes the alternative and payload of the right-hand side
assign(self, rhs) == rhs

\* onSuccess lambdas whose error branch rebuilds the Error from its message
RECURSIVE onSuccess_run_recoded(_, _, _)
onSuccess_run_recoded(result, calls, apply_value) ==
    IF calls = << >> THEN [result |-> result, invoked |-> << >>]
    ELSE LET c == Head(calls)
             step == IF c.fn = "apply_value"
                     THEN [result |-> assign(result, apply_value[c.value[1]]),
                           invoked |-> << Call("apply_value", c.value, <<>>) >>]
                     ELSE [result |-> assign(result,
                                        Result_Error(Error_message(c.error[1].message))),
                           invoked |-> << >>]
             rest == onSuccess_run_recoded(step.result, Tail(calls), apply_value)
         IN [result |-> rest.result, invoked |-> step.invoked \o rest.invoked]

\* the two lambdas onSuccess hands to match, run over match's invocations:
\* [&](T value) { result = apply_value(value); } and
\* [&](Error<ErrorEnum> error) { result = error; }
RECURSIVE onSuccess_run(_, _, _)
onSuccess_run(result, calls, apply_value) ==
    IF calls = << >> THEN [result |-> result, invoked |-> << >>]
    ELSE LET c == Head(calls)
             step == IF c.fn = "apply_value"
                     THEN [result |-> assign(result, apply_value[c.value[1]]),
                           invoked |-> << Call("apply_value", c.value, <<>>) >>]
                     ELSE [result |-> assign(result, Result_Error(c.error[1])),
                           invoked |-> << >>]
             rest == onSuccess_run(step.result, Tail(calls), apply_value)
         IN [result |-> rest.result, invoked |-> step.invoked \o rest.invoked]

\* onSuccess whose error lambda does not assign the error to the result
onSuccess_error_ignored(self, apply_value) ==
    IF type(self) = "Error"
    THEN [result |-> Result_default, invoked |-> << >>]
    ELSE onSuccess_run(Result_default, match(self), apply_value)

\* Result<U, ErrorEnum> onSuccess(apply_value) const
onSuccess(self, apply_value) ==
    onSuccess_run(Result_default, match(self), apply_value)

\* the two lambdas recover hands to match:
\* [&](T value) { val = value; } and
\* [&](Error<ErrorEnum> error) { val = apply_error(error); }
RECURSIVE recover_run(_, _, _)
recover_run(val, calls, apply_error) ==
    IF calls = << >> THEN [val |-> val, invoked |-> << >>]
    ELSE LET c == Head(calls)
             step == IF c.fn = "apply_value"
                     THEN [val |-> c.value[1], invoked |-> << >>]
                     ELSE [val |-> apply_error[c.error[1]],
                           invoked |-> << Call("apply_error", <<>>, c.error) >>]
             rest == recover_run(step.val, Tail(calls), apply_error)
         IN [val |-> rest.val, invoked |-> step.invoked \o rest.invoked]

\* T recover(apply_error) const: `T val;` is default-initialised, which for
\* a scalar T leaves it indeterminate
recover(self, apply_error, indeterminate) ==
    recover_run(indeterminate, match(self), apply_error)

\* ---- the client program: one Result object, one Error object ----
VARIABLES r, e, origin, op, arg, ret, calls, chain

vars == << r, e, origin, op, arg, ret, calls, chain >>

\* the callables a client can pass: each answers T() (resp. an Error with
\* the zero code) with one result and every other argument with another
ApplyValueFns ==
    {[t \in T |-> IF t = TDefault THEN x ELSE y] : x \in Results, y \in Results}
ApplyErrorFns ==
    {[x \in Errors |-> IF code(x) = ErrorEnumDefault THEN t ELSE u] : t \in T, u \in T}

NoArg == [value |-> << >>, error |-> << >>, message |-> << >>, code |-> << >>,
          apply_value |-> << >>, apply_error |-> << >>]
NoRet == [thrown |-> FALSE, content |-> << >>, value |-> << >>, error |-> << >>,
          result |-> << >>]
NoChain == [steps |-> 0, cur |-> << >>, firstError |-> << >>, invoked |-> 0,
            invokedAfterError |-> 0]
\* how r got its content: the operation, its argument, and what type()
\* reported on r just before it
Origin(o, value, err) ==
    [op |-> o, value |-> value, error |-> err, prior |-> type(r)]

\* a client holding `Result<T, E> r = T();` and `Error<E> e = Error<E>();`
Init ==
    /\ r = Result_T(TDefault)
    /\ e = Error_default(TRUE, ErrorEnumDefault)
    /\ origin = Origin("init", << >>, << >>)
    /\ op = "init"
    /\ arg = NoArg
    /\ ret = NoRet
    /\ calls = << >>
    /\ chain = NoChain

\* ---- Error constructors ----
NewErrorMessageCode ==
    \E m \in Messages, c \in ErrorEnum :
        /\ e' = Error_message_code(m, c)
        /\ op' = "Error(message,code)"
        /\ arg' = [NoArg EXCEPT !.message = << m >>, !.code = << c >>]
        /\ ret' = NoRet /\ calls' = << >> /\ chain' = NoChain
        /\ UNCHANGED << r, origin >>

NewErrorCode ==
    \E c \in ErrorEnum :
        /\ e' = Error_code(c)
        /\ op' = "Error(code)"
        /\ arg' = [NoArg EXCEPT !.code = << c >>]
        /\ ret' = NoRet /\ calls' = << >> /\ chain' = NoChain
        /\ UNCHANGED << r, origin >>

NewErrorMessage ==
    \E m \in Messages :
        /\ e' = Error_message(m)
        /\ op' = "Error(message)"
        /\ arg' = [NoArg EXCEPT !.message = << m >>]
        /\ ret' = NoRet /\ calls' = << >> /\ chain' = NoChain
        /\ UNCHANGED << r, origin >>

\* Error<E>() (value-initialised) or `Error<E> error;` (default-initialised)
NewErrorDefault ==
    \E valueInit \in BOOLEAN, indeterminate \in ErrorEnum :
        /\ e' = Error_default(valueInit, indeterminate)
        /\ op' = "Error()"
        /\ arg' = NoArg
        /\ ret' = NoRet /\ calls' = << >> /\ chain' = NoChain
        /\ UNCHANGED << r, origin >>

\* ---- Result constructors and wholesale reassignment ----
ConstructDefault ==
    /\ r' = Result_default
    /\ origin' = Origin("Result()", << >>, << >>)
    /\ op' = "Result()"
    /\ arg' = NoArg
    /\ ret' = NoRet /\ calls' = << >> /\ chain' = NoChain
    /\ UNCHANGED e

ConstructValue ==
    \E t \in T :
        /\ r' = Result_T(t)
        /\ origin' = Origin("Result(T)", << t >>, << >>)
        /\ op' = "Result(T)"
        /\ arg' = [NoArg EXCEPT !.value = << t >>]
        /\ ret' = NoRet /\ calls' = << >> /\ chain' = NoChain
        /\ UNCHANGED e

ConstructError ==
    /\ r' = Result_Error(e)
    /\ origin' = Origin("Result(Error)", << >>, << e >>)
    /\ op' = "Result(Error)"
    /\ arg' = [NoArg EXCEPT !.error = << e >>]
    /\ ret' = NoRet /\ calls' = << >> /\ chain' = NoChain
    /\ UNCHANGED e

\* r = t;
AssignValue ==
    \E t \in T :
        /\ r' = assign(r, Result_T(t))
        /\ origin' = Origin("operator=(T)", << t >>, << >>)
        /\ op' = "operator=(T)"
        /\ arg' = [NoArg EXCEPT !.value = << t >>]
        /\ ret' = NoRet /\ calls' = << >> /\ chain' = NoChain
        /\ UNCHANGED e

\* r = e;
AssignError ==
    /\ r' = assign(r, Result_Error(e))
    /\ origin' = Origin("operator=(Error)", << >>, << e >>)
    /\ op' = "operator=(Error)"
    /\ arg' = [NoArg EXCEPT !.error = << e >>]
    /\ ret' = NoRet /\ calls' = << >> /\ chain' = NoChain
    /\ UNCHANGED e

\* r = e; where copying the Error's std::string throws (std::bad_alloc):
\* a Result holding another alternative has destroyed it by then and is
\* left valueless; one already holding an Error keeps it
AssignErrorThrows ==
    /\ r' = IF r.index = 1 THEN r ELSE valueless
    /\ origin' = IF r.index = 1 THEN origin
                 ELSE Origin("operator=(Error) throws", << >>, << e >>)
    /\ op' = "operator=(Error) throws"
    /\ arg' = [NoArg EXCEPT !.error = << e >>]
    /\ ret' = [NoRet EXCEPT !.thrown = TRUE]
    /\ calls' = << >> /\ chain' = NoChain
    /\ UNCHANGED e

\* ---- accessors ----
CallType ==
    /\ op' = "type"
    /\ arg' = NoArg
    /\ ret' = [NoRet EXCEPT !.content = << type(r) >>]
    /\ calls' = << >> /\ chain' = NoChain
    /\ UNCHANGED << r, e, origin >>

CallGet ==
    /\ op' = "get"
    /\ arg' = NoArg
    /\ ret' = [NoRet EXCEPT !.thrown = get(r).thrown, !.value = get(r).value]
    /\ calls' = << >> /\ chain' = NoChain
    /\ UNCHANGED << r, e, origin >>

CallError ==
    /\ op' = "error"
    /\ arg' = NoArg
    /\ ret' = [NoRet EXCEPT !.thrown = error(r).thrown, !.error = error(r).error]
    /\ calls' = << >> /\ chain' = NoChain
    /\ UNCHANGED << r, e, origin >>

\* ---- combinators ----
\* r.match(apply_value, apply_error)
CallMatch ==
    /\ op' = "match"
    /\ arg' = NoArg
    /\ ret' = NoRet
    /\ calls' = match(r)
    /\ chain' = NoChain
    /\ UNCHANGED << r, e, origin >>

\* Result::match(r, apply_value, apply_error)
CallFreeMatch ==
    /\ op' = "Result::match"
    /\ arg' = NoArg
    /\ ret' = NoRet
    /\ calls' = Result_match(r)
    /\ chain' = NoChain
    /\ UNCHANGED << r, e, origin >>

CallOnSuccess ==
    \E apply_value \in ApplyValueFns :
        /\ op' = "onSuccess"
        /\ arg' = [NoArg EXCEPT !.apply_value = << apply_value >>]
        /\ ret' = [NoRet EXCEPT !.result = << onSuccess(r, apply_value).result >>]
        /\ calls' = onSuccess(r, apply_value).invoked
        /\ chain' = NoChain
        /\ UNCHANGED << r, e, origin >>

CallRecover ==
    \E apply_error \in ApplyErrorFns, indeterminate \in T :
        /\ op' = "recover"
        /\ arg' = [NoArg EXCEPT !.apply_error = << apply_error >>]
        /\ ret' = [NoRet EXCEPT
                     !.value = << recover(r, apply_error, indeterminate).val >>]
        /\ calls' = recover(r, apply_error, indeterminate).invoked
        /\ chain' = NoChain
        /\ UNCHANGED << r, e, origin >>

\* ---- r.onSuccess(f1).onSuccess(f2)...onSuccess(fn) ----
\* the chain's current Result starts as r
ChainStart ==
    /\ chain' = [steps |-> 0, cur |-> << r >>,
                 firstError |-> IF type(r) = "Error" THEN r.error ELSE << >>,
                 invoked |-> 0, invokedAfterError |-> 0]
    /\ op' = "chain"
    /\ arg' = NoArg /\ ret' = NoRet /\ calls' = << >>
    /\ UNCHANGED << r, e, origin >>

\* one more .onSuccess(f) applied to the chain's current Result
ChainStep ==
    /\ chain.cur # << >>
    /\ chain.steps < MaxChain
    /\ \E f \in ApplyValueFns :
         LET cur == chain.cur[1]
             out == onSuccess(cur, f)
         IN /\ chain' = [steps |-> chain.steps + 1,
                         cur |-> << out.result >>,
                         firstError |->
                             IF chain.firstError # << >> THEN chain.firstError
                             ELSE IF type(out.result) = "Error" THEN out.result.error
                             ELSE << >>,
                         invoked |-> chain.invoked + Len(out.invoked),
                         invokedAfterError |->
                             chain.invokedAfterError
                             + (IF chain.firstError # << >> THEN Len(out.invoked) ELSE 0)]
            /\ calls' = out.invoked
    /\ op' = "chain"
    /\ arg' = NoArg /\ ret' = NoRet
    /\ UNCHANGED << r, e, origin >>

Next ==
    \/ NewErrorMessageCode \/ NewErrorCode \/ NewErrorMessage \/ NewErrorDefault
    \/ ConstructDefault \/ ConstructValue \/ ConstructError
    \/ AssignValue \/ AssignError \/ AssignErrorThrows
    \/ CallType \/ CallGet \/ CallError
    \/ CallMatch \/ CallFreeMatch \/ CallOnSuccess \/ CallRecover
    \/ ChainStart \/ ChainStep

Spec == Init /\ [][Next]_vars

\* ---- properties ----

\* C1: for every t, a Result constructed from t reports type() == Value and
\* get() returns t, however often and whenever they are called
C1_ValueConstruction ==
    origin.op = "Result(T)" =>
        /\ type(r) = "Value"
        /\ get(r) = [thrown |-> FALSE, value |-> origin.value]
        /\ (op = "type" => ret.content = << "Value" >>)
        /\ (op = "get" => ~ret.thrown /\ ret.value = origin.value)

C1_Witness ==
    /\ origin.op = "Result(T)" /\ origin.value = << 1 >>
    /\ op = "get" /\ ret.value = << 1 >>

\* C2: for every Error x, a Result constructed from x reports type() == Error
\* and error() returns an Error with x's code and x's message
C2_ErrorConstruction ==
    origin.op = "Result(Error)" =>
        /\ type(r) = "Error"
        /\ ~error(r).thrown
        /\ code(error(r).error[1]) = code(origin.error[1])
        /\ message(error(r).error[1]) = message(origin.error[1])
        /\ (op = "type" => ret.content = << "Error" >>)
        /\ (op = "error" => /\ ~ret.thrown
                            /\ code(ret.error[1]) = code(origin.error[1])
                            /\ message(ret.error[1]) = message(origin.error[1]))

C2_Witness ==
    /\ origin.op = "Result(Error)"
    /\ origin.error = << Error_message_code("bad input", 1) >>
    /\ op = "error" /\ ret.error = origin.error

\* C3: a Result constructed with no arguments is Empty: type() == Empty and
\* neither payload slot is live
C3_DefaultIsEmpty ==
    origin.op = "Result()" =>
        /\ type(r) = "Empty"
        /\ r.value = << >> /\ r.error = << >>
        /\ (op = "type" => ret.content = << "Empty" >>)

\* C4: get() succeeds exactly when type() is Value and error() exactly when
\* type() is Error; every other call throws and returns no value at all
C4_CheckedAccess ==
    /\ op = "get" =>
          /\ ret.thrown <=> type(r) # "Value"
          /\ ret.thrown => ret.value = << >>
          /\ ~ret.thrown => ret.value = r.value /\ r.value # << >>
    /\ op = "error" =>
          /\ ret.thrown <=> type(r) # "Error"
          /\ ret.thrown => ret.error = << >>
          /\ ~ret.thrown => ret.error = r.error /\ r.error # << >>

C4_Witness ==
    /\ op = "get" /\ type(r) = "Empty" /\ ret.thrown /\ ret.value = << >>

\* C5: member and free match invoke exactly one callback exactly once:
\* onValue with the stored value in Value state, onError with the stored
\* Error in Error state; in Empty state neither is invoked
C5_MatchDispatch ==
    op \in {"match", "Result::match"} =>
        /\ type(r) = "Value" => calls = << Call("apply_value", r.value, << >>) >>
        /\ type(r) = "Error" => calls = << Call("apply_error", << >>, r.error) >>
        /\ type(r) = "Empty" => calls = << >>
        /\ type(r) # "Empty" => r.value \o r.error # << >>

C5_Witness ==
    /\ op = "Result::match" /\ type(r) = "Error"
    /\ calls = << Call("apply_error", << >>, << Error_message_code("bad input", 1) >>) >>

\* C6: onSuccess on a Value-state Result returns exactly what apply returns
\* for the stored value, invoking apply once; on an Error-state Result it
\* returns an Error-state Result with the same code and message and does
\* not invoke apply
C6_OnSuccess ==
    op = "onSuccess" =>
        /\ type(r) = "Value" =>
              /\ ret.result = << arg.apply_value[1][r.value[1]] >>
              /\ calls = << Call("apply_value", r.value, << >>) >>
        /\ type(r) = "Error" =>
              /\ type(ret.result[1]) = "Error"
              /\ code(ret.result[1].error[1]) = code(r.error[1])
              /\ message(ret.result[1].error[1]) = message(r.error[1])
              /\ calls = << >>

C6_Witness ==
    /\ op = "onSuccess" /\ type(r) = "Value" /\ r.value = << 1 >>
    /\ type(ret.result[1]) = "Error" /\ Len(calls) = 1

\* C7: onSuccess on an Empty Result, in particular on a default-constructed
\* Result(), returns a Result whose type() is Empty and does not invoke apply
C7_OnSuccessEmpty ==
    (op = "onSuccess" /\ (type(r) = "Empty" \/ origin.op = "Result()")) =>
        /\ type(ret.result[1]) = "Empty"
        /\ calls = << >>

\* C8: once the current Result of an onSuccess chain is in Error state, no
\* later transformer is invoked and the chain's Result stays in Error state
\* with the first error's code and message
C8_ShortCircuit ==
    chain.firstError # << >> =>
        /\ chain.invokedAfterError = 0
        /\ type(chain.cur[1]) = "Error"
        /\ code(chain.cur[1].error[1]) = code(chain.firstError[1])
        /\ message(chain.cur[1].error[1]) = message(chain.firstError[1])

C8_Witness ==
    /\ type(r) = "Value" /\ chain.steps = 3 /\ chain.invoked = 1
    /\ chain.firstError = << Error_message_code("bad input", 1) >>
    /\ chain.cur = << Result_Error(chain.firstError[1]) >>

\* C9: recover returns the stored value without invoking apply in Value
\* state, exactly apply(stored error) with one invocation in Error state,
\* and the default value of T without invoking apply in Empty state
C9_Recover ==
    op = "recover" =>
        /\ type(r) = "Value" => ret.value = r.value /\ calls = << >>
        /\ type(r) = "Error" =>
              /\ ret.value = << arg.apply_error[1][r.error[1]] >>
              /\ calls = << Call("apply_error", << >>, r.error) >>
        /\ type(r) = "Empty" => ret.value = << TDefault >> /\ calls = << >>

\* C10: Error(m, c) keeps m and c; Error(c) has an empty message and code c;
\* Error(m) has message m and the zero code; a default-constructed Error has
\* an empty message and the zero code
C10_ErrorConstruction ==
    /\ op = "Error(message,code)" =>
          message(e) = arg.message[1] /\ code(e) = arg.code[1]
    /\ op = "Error(code)" => message(e) = "" /\ code(e) = arg.code[1]
    /\ op = "Error(message)" =>
          message(e) = arg.message[1] /\ code(e) = ErrorEnumDefault
    /\ op = "Error()" => message(e) = "" /\ code(e) = ErrorEnumDefault

C12_ReadsRepeatable ==
    [][ /\ op' \in {"type", "get", "error", "match", "Result::match",
                    "onSuccess", "recover"} => r' = r
        /\ ( /\ op' \in {"type", "get", "error", "match", "Result::match",
                         "onSuccess", "recover"}
              /\ op' = op /\ arg' = arg )
           => (ret' = ret /\ calls' = calls)
      ]_vars

====
